---- MODULE Spec2Model ----
(***************************************************************************)
(* Model of pkg/analyzer/legacy.go: the legacy sqlclosecheck pass.         *)
(*                                                                         *)
(* The analysed program is an abstract go/ssa graph: instructions carry    *)
(* exactly the attributes legacy.go reads (kind, Call.Value.Name(),        *)
(* Call.Method, StaticCallee(), receiver type, Store.Addr, referrers ...). *)
(* Run, isClosed, getAction and checkDeferred are executed on an explicit  *)
(* call stack, one frame per Go call, so that recursion depth and          *)
(* termination are part of the model.                                      *)
(***************************************************************************)
EXTENDS Naturals, Sequences, FiniteSets

(***************************************************************************)
(* Bounds of the model.                                                    *)
(***************************************************************************)
\* longest referrer list of the tracked value
MaxRefs == 2
\* goroutine stack limit, in frames: a call beyond it is a fatal stack overflow
MaxDepth == 8

(***************************************************************************)
(* Constants of legacy.go.                                                 *)
(***************************************************************************)
rowsName == "Rows"
stmtName == "Stmt"
namedStmtName == "NamedStmt"
closeMethod == "Close"

actionUnhandled == "Unhandled"
actionHandled == "Handled"
actionReturned == "Returned"
actionPassed == "Passed"
actionClosed == "Closed"
actionUnvaluedCall == "UnvaluedCall"
actionUnvaluedDefer == "UnvaluedDefer"
actionNoOp == "NoOp"

sqlPackages == <<"database/sql", "github.com/jmoiron/sqlx",
                 "github.com/jackc/pgx/v5", "github.com/jackc/pgx/v5/pgxpool">>

NotClosedMsg == "Rows/Stmt/NamedStmt was not closed"
UseDeferMsg == "Close should use defer"

(***************************************************************************)
(* Types (go/types): identity is structural, so a type is its description. *)
(***************************************************************************)
Named(p, n) == [shape |-> "Named", pkg |-> p, name |-> n]
Pointer(p, n) == [shape |-> "Pointer", pkg |-> p, name |-> n]
Basic(n) == [shape |-> "Basic", pkg |-> "", name |-> n]
NoType == [shape |-> "None", pkg |-> "", name |-> ""]

Identical(t, u) == t = u

(***************************************************************************)
(* Instructions (go/ssa).  One record shape for every kind:                *)
(*   valueNil   Call.Value == nil                                          *)
(*   valueName  Call.Value.Name()                                          *)
(*   method     Call.Method's name, "" when Call.Method == nil             *)
(*   valueFn    f when Call.Value is the *ssa.Function f, "" otherwise     *)
(*   callee     StaticCallee(): a function name, "" when nil               *)
(*   recv       the static callee's Signature.Recv() type, NoType if none  *)
(*   vtype      Call.Value.Type()                                          *)
(*   addrField  Store.Addr is an *ssa.FieldAddr                            *)
(*   addrRefs   Store.Addr.Referrers(): f for a MakeClosure of the         *)
(*              function f, "" for any other instruction                   *)
(*   type       the instruction's own type (UnOp)                          *)
(*   refs       the instruction's Referrers() (UnOp, FieldAddr)            *)
(*   results    the types of Return.Results                                *)
(***************************************************************************)
Instr0 ==
  [kind |-> "Other", valueNil |-> FALSE, valueName |-> "", method |-> "",
   valueFn |-> "", callee |-> "", recv |-> NoType, vtype |-> NoType,
   addrField |-> FALSE, addrRefs |-> <<>>, type |-> NoType, refs |-> <<>>,
   results |-> <<>>]

\* names of the program's functions (see Funcs); "" stands for no function
FnExternal == "extern"
FnCloseRows == "closeRows"
FnWrapper == "wrapper"
FnSelfRec == "selfRec"
FnMutualA == "mutualA"
FnMutualB == "mutualB"
FnDeferFileClose == "logRows"
FnCloseThenRec == "drain"
FnPlain == "plain"
FnNames == {FnExternal, FnCloseRows, FnWrapper, FnSelfRec, FnMutualA, FnMutualB,
            FnDeferFileClose, FnCloseThenRec, FnPlain}

\* defer rows.Close()
DeferClose(p) ==
  [Instr0 EXCEPT !.kind = "Defer", !.valueName = closeMethod,
                 !.valueFn = FnExternal, !.callee = FnExternal,
                 !.recv = Pointer(p, rowsName)]
\* defer f.Close() on an *os.File
DeferFileClose ==
  [Instr0 EXCEPT !.kind = "Defer", !.valueName = closeMethod,
                 !.valueFn = FnExternal, !.callee = FnExternal,
                 !.recv = Pointer("os", "File")]
\* defer rows.Close() on a Rows that is an interface (invoke mode)
DeferInvokeClose(p) ==
  [Instr0 EXCEPT !.kind = "Defer", !.valueName = "t0", !.method = closeMethod,
                 !.vtype = Named(p, rowsName)]
\* defer f(rows) for the declared function f
DeferFn(f) ==
  [Instr0 EXCEPT !.kind = "Defer", !.valueName = "fn", !.valueFn = f,
                 !.callee = f]
\* defer func() { ... }() : Call.Value is a MakeClosure
DeferClosure ==
  [Instr0 EXCEPT !.kind = "Defer", !.valueName = "t1"]
\* rows.Close()
CallClose(p) ==
  [Instr0 EXCEPT !.kind = "Call", !.valueName = closeMethod,
                 !.valueFn = FnExternal, !.callee = FnExternal,
                 !.recv = Pointer(p, rowsName)]
\* f.Close() on an *os.File
CallFileClose ==
  [Instr0 EXCEPT !.kind = "Call", !.valueName = closeMethod,
                 !.valueFn = FnExternal, !.callee = FnExternal,
                 !.recv = Pointer("os", "File")]
\* rows.Next()
CallNext(p) ==
  [Instr0 EXCEPT !.kind = "Call", !.valueName = "Next",
                 !.valueFn = FnExternal, !.callee = FnExternal,
                 !.recv = Pointer(p, rowsName)]
\* f(rows) for the declared function f
CallFn(f) ==
  [Instr0 EXCEPT !.kind = "Call", !.valueName = "fn", !.valueFn = f,
                 !.callee = f]
\* g(rows) for a function value g: no static callee
CallDyn ==
  [Instr0 EXCEPT !.kind = "Call", !.valueName = "t2",
                 !.vtype = Basic("func")]
Phi == [Instr0 EXCEPT !.kind = "Phi"]
MakeInterface == [Instr0 EXCEPT !.kind = "MakeInterface"]
\* s.rows = rows
StoreField == [Instr0 EXCEPT !.kind = "Store", !.addrField = TRUE,
                             !.addrRefs = <<"">>]
\* *cell = rows, with the cell captured by the function literals fs
StoreCell(fs) == [Instr0 EXCEPT !.kind = "Store", !.addrRefs = <<"">> \o fs]
UnOp(t, rs) == [Instr0 EXCEPT !.kind = "UnOp", !.type = t, !.refs = rs]
FieldAddr(rs) == [Instr0 EXCEPT !.kind = "FieldAddr", !.refs = rs]
Return(ts) == [Instr0 EXCEPT !.kind = "Return", !.results = ts]
Other == Instr0

(***************************************************************************)
(* The functions of the analysed program other than the scanned source     *)
(* function: ssa.Function.Blocks, per function id, for the library p.      *)
(***************************************************************************)
Funcs(p) ==
  [f \in FnNames |->
     CASE f = FnExternal -> \* a function without a body (Blocks == nil)
            << >>
       [] f = FnCloseRows -> \* func closeRows(r *Rows) { r.Next(); r.Close() }
            << <<CallNext(p), CallClose(p), Return(<<>>)>> >>
       [] f = FnWrapper -> \* func wrapper(r *Rows) { closeRows(r) }
            << <<CallFn(FnCloseRows), Return(<<>>)>> >>
       [] f = FnSelfRec -> \* func selfRec(r *Rows) { selfRec(r) }
            << <<CallFn(FnSelfRec), Return(<<>>)>> >>
       [] f = FnMutualA -> \* mutualA and mutualB call each other
            << <<Other>>, <<CallFn(FnMutualB), Return(<<>>)>> >>
       [] f = FnMutualB ->
            << <<CallFn(FnMutualA), Return(<<>>)>> >>
       [] f = FnDeferFileClose -> \* func logRows(r *Rows) { f := open(); defer f.Close() }
            << <<CallDyn, DeferFileClose, Return(<<>>)>> >>
       [] f = FnCloseThenRec -> \* func drain(r *Rows) { r.Close(); drain(r) }
            << <<CallClose(p), CallFn(FnCloseThenRec)>> >>
       [] OTHER -> \* FnPlain: closes no Rows
            << <<CallFileClose, DeferClosure, StoreCell(<<>>)>>,
               <<Return(<<Basic("int")>>)>> >> ]

(***************************************************************************)
(* The analysed programs.  The scanned source function has one block with  *)
(* two calls: one returning an int, one returning a *Rows of the library   *)
(* p, whose referrers are drawn from RefInstrs(p).                         *)
(***************************************************************************)
Libs == {"database/sql", "example.com/db"}

RefInstrs(p) ==
  { DeferClose(p), DeferInvokeClose(p), DeferFn(FnCloseRows),
    CallClose(p), CallNext(p),
    CallFn(FnCloseRows), CallFn(FnWrapper), CallFn(FnSelfRec),
    CallFn(FnMutualA), CallFn(FnDeferFileClose), CallFn(FnCloseThenRec),
    CallFn(FnPlain),
    Phi, MakeInterface,
    StoreField, StoreCell(<<FnPlain, FnCloseRows>>),
    Return(<<Basic("error"), Pointer(p, rowsName)>>),
    \* r := *rows ; (&r).Close()
    UnOp(Named(p, rowsName), <<CallClose(p)>>),
    \* a load of another type
    UnOp(Basic("int"), <<CallClose(p)>>),
    \* rows.Rows.Close() on a struct embedding *Rows
    FieldAddr(<<UnOp(Pointer(p, rowsName), <<CallNext(p), CallClose(p)>>)>>),
    FieldAddr(<<UnOp(Pointer(p, rowsName), <<DeferClose(p)>>)>>) }

RefLists(p) == UNION { [1..n -> RefInstrs(p)] : n \in 0..MaxRefs }

\* the referrers the termination of the walk is studied on: the calls into
\* the function table, and one referrer of each other way into isClosed
WalkInstrs(p) ==
  { DeferClose(p), CallClose(p),
    CallFn(FnCloseRows), CallFn(FnWrapper), CallFn(FnSelfRec),
    CallFn(FnMutualA), CallFn(FnCloseThenRec), CallFn(FnPlain),
    Phi, StoreCell(<<FnPlain, FnCloseRows>>),
    FieldAddr(<<UnOp(Pointer(p, rowsName), <<CallNext(p), CallClose(p)>>)>>) }

WalkLists(p) == UNION { [1..n -> WalkInstrs(p)] : n \in 0..MaxRefs }

SrcCall(t, rs) == [result |-> t, refs |-> rs]

Program(p, rs) ==
  [pkg |-> p,
   universe |-> { [pkg |-> p, name |-> rowsName],
                  [pkg |-> p, name |-> stmtName],
                  [pkg |-> "os", name |-> "File"] },
   instrs |-> << SrcCall(Basic("int"), <<>>),
                 SrcCall(Pointer(p, rowsName), rs) >>,
   funcs |-> Funcs(p)]

(***************************************************************************)
(* State.                                                                  *)
(*   prog         the analysed program (never changed by the analysis)     *)
(*   targetTypes  Run's targetTypes                                        *)
(*   pc           where Run is: "start", "scan" (the instruction loop),    *)
(*                "value" (the targetValues loop), "isClosed" (inside the  *)
(*                call of line 96), "checkDeferred" (inside the call of    *)
(*                line 101), "done" (returned), "overflow" (the goroutine  *)
(*                stack limit was exceeded: the process died)              *)
(*   i, vals, j   Run's instruction index, targetValues and index in them  *)
(*   stack        the Go call stack below Run, innermost frame last        *)
(*   ret          the value returned by the call that just returned        *)
(*   diags        what pass.Reportf received, in order                     *)
(* and, recording the run: scanned (instructions Run looked at), calls     *)
(* (isClosed/checkDeferred calls made by Run), acts (getAction's results   *)
(* for the tracked value's own referrers, in order), closedRes (the result *)
(* of line 96), classified (every instruction getAction classified, with   *)
(* the action), examined (every instruction checkDeferred looked at).      *)
(***************************************************************************)
VARIABLES prog, targetTypes, pc, i, vals, j, stack, ret, diags,
          scanned, calls, acts, closedRes, classified, examined

vars == <<prog, targetTypes, pc, i, vals, j, stack, ret, diags,
          scanned, calls, acts, closedRes, classified, examined>>

(***************************************************************************)
(* Target types.                                                           *)
(***************************************************************************)
TypeNames == <<rowsName, stmtName, namedStmtName>>

\* the (package, name) pairs looked up, in order
Candidate(k) ==
  [pkg |-> sqlPackages[((k - 1) \div Len(TypeNames)) + 1],
   name |-> TypeNames[((k - 1) % Len(TypeNames)) + 1]]

\* getTargetTypes: the named type and the pointer to it, for every tracked
\* name that a supported package of the program declares
getTargetTypes(universe) ==
  LET all == [k \in 1..(Len(sqlPackages) * Len(TypeNames)) |-> Candidate(k)]
      found == SelectSeq(all, LAMBDA c : c \in universe)
  IN  [m \in 1..(2 * Len(found)) |->
         IF m % 2 = 1 THEN Named(found[(m + 1) \div 2].pkg, found[(m + 1) \div 2].name)
                      ELSE Pointer(found[m \div 2].pkg, found[m \div 2].name)]

\* isTargetType: t is one of the target types
isTargetType(t, tts) == \E k \in DOMAIN tts : Identical(t, tts[k])

\* getClosableValues: the value of a call whose result is target-typed
getClosableValues(instrs, n, tts) ==
  IF isTargetType(instrs[n].result, tts)
    THEN << [refs |-> instrs[n].refs, instr |-> n] >>
    ELSE << >>

\* the target types a type is identical to (the loops of lines 265-282,
\* 296-311 and 354-369)
Matching(t, tts) ==
  SelectSeq(tts, LAMBDA tt : tt.shape \in {"Pointer", "Named"} /\ Identical(t, tt))

\* len(targetTypes) == 0 (line 76)
NoTargetsNever(tts) == FALSE
NoTargets(tts) == Len(tts) = 0

(***************************************************************************)
(* getAction.  Its result is either known at once or depends on isClosed   *)
(* calls on instruction lists; getAction(instr, tts) is the plan           *)
(*   [scans, hit, miss]: call isClosed on each list of scans in order,     *)
(*   return hit at the first call that returns true, miss if none does.    *)
(* A list is [instrs, fn, blk]: the instructions, and the function and     *)
(* block they are the body of ("" and 0 for a list of referrers).          *)
(***************************************************************************)
Result(a) == [scans |-> << >>, hit |-> a, miss |-> a]
Scan(ls, h, m) == [scans |-> ls, hit |-> h, miss |-> m]

Referrers(instr) == [instrs |-> instr.refs, fn |-> "", blk |-> 0]

\* f.Blocks, as lists
Blocks(f) ==
  [b \in 1..Len(prog.funcs[f]) |-> [instrs |-> prog.funcs[f][b], fn |-> f, blk |-> b]]

\* the function f has a body being scanned by an isClosed call on the stack
Scanning(f) == \E d \in DOMAIN stack : stack[d].op = "isClosed" /\ stack[d].fn = f
\* some function body is being scanned by an isClosed call on the stack
InCallee == \E d \in DOMAIN stack : stack[d].op = "isClosed" /\ stack[d].fn # ""

\* staticCallee.Blocks (line 219), with a visited-set guard
StaticCalleeBlocksGuarded(f) == IF Scanning(f) THEN << >> ELSE Blocks(f)
\* staticCallee.Blocks (line 219), followed from the first call site only
StaticCalleeBlocksOneLevel(f) == IF InCallee THEN << >> ELSE Blocks(f)
\* staticCallee.Blocks (line 219)
StaticCalleeBlocks(f) == Blocks(f)

\* the blocks of every function literal among Store.Addr's referrers, in
\* order (lines 250-260, 343-351)
RECURSIVE ClosureBlocks(_)
ClosureBlocks(addrRefs) ==
  IF addrRefs = << >> THEN << >>
  ELSE (IF Head(addrRefs) # "" THEN Blocks(Head(addrRefs)) ELSE << >>)
       \o ClosureBlocks(Tail(addrRefs))

\* the Defer case, lines 158-184
getActionDefer(instr, tts) ==
  IF ~instr.valueNil /\ instr.valueName = closeMethod THEN Result(actionClosed)
  ELSE IF instr.method # ""
    THEN (IF instr.method = closeMethod THEN Result(actionClosed)
                                        ELSE Result(actionUnvaluedDefer))
  ELSE IF ~instr.valueNil /\ instr.valueFn # ""
    THEN Scan(Blocks(instr.valueFn), actionClosed, actionUnvaluedDefer)
  ELSE Result(actionUnvaluedDefer)

\* the Call case, lines 185-230
getActionCall(instr, tts) ==
  IF instr.valueNil THEN Result(actionUnvaluedCall)
  ELSE LET isTarget == IF instr.callee # ""
                         THEN instr.recv # NoType /\ isTargetType(instr.recv, tts)
                         ELSE isTargetType(instr.vtype, tts)
       IN  IF isTarget /\ instr.valueName = closeMethod THEN Result(actionClosed)
           ELSE IF ~isTarget
             THEN (IF instr.callee = "" THEN Result(actionUnhandled)
                   ELSE Scan(StaticCalleeBlocks(instr.callee), actionClosed,
                             actionUnhandled))
           ELSE Result(actionUnhandled)

\* the Store case, lines 237-260
getActionStore(instr, tts) ==
  IF instr.addrField THEN Result(actionReturned)
  ELSE IF Len(instr.addrRefs) = 0 THEN Result(actionNoOp)
  ELSE Scan(ClosureBlocks(instr.addrRefs), actionHandled, actionUnhandled)

\* the UnOp case, lines 261-282: one isClosed call per identical target type
getActionUnOp(instr, tts) ==
  Scan([k \in 1..Len(Matching(instr.type, tts)) |-> Referrers(instr)],
       actionHandled, actionUnhandled)

\* the FieldAddr case, lines 283-288
getActionFieldAddr(instr, tts) ==
  Scan(<<Referrers(instr)>>, actionHandled, actionUnhandled)

\* the Return case, lines 289-313
getActionReturn(instr, tts) ==
  IF \E r \in DOMAIN instr.results : Len(Matching(instr.results[r], tts)) > 0
    THEN Result(actionReturned)
    ELSE Result(actionUnhandled)

\* the Phi and MakeInterface cases, lines 231-236
PassedAsClosed == actionClosed
Passed == actionPassed

getAction(instr, tts) ==
  CASE instr.kind = "Defer" -> getActionDefer(instr, tts)
    [] instr.kind = "Call" -> getActionCall(instr, tts)
    [] instr.kind = "Phi" -> Result(Passed)
    [] instr.kind = "MakeInterface" -> Result(Passed)
    [] instr.kind = "Store" -> getActionStore(instr, tts)
    [] instr.kind = "UnOp" -> getActionUnOp(instr, tts)
    [] instr.kind = "FieldAddr" -> getActionFieldAddr(instr, tts)
    [] instr.kind = "Return" -> getActionReturn(instr, tts)
    [] OTHER -> Result(actionUnhandled)

\* isClosed's switch, lines 121-147: the actions that make it return true
ClosingAlsoReturned == {actionClosed, actionHandled, actionReturned}
Closing == {actionClosed, actionHandled}

(***************************************************************************)
(* checkDeferred's switch on one instruction, lines 321-372:               *)
(*   [stop, report, calls]: stop is the return, report the Reportf before  *)
(*   it, calls the recursive checkDeferred calls made, in order, each      *)
(*   [instrs, fn, blk, inDefer].                                           *)
(***************************************************************************)
WithDefer(ls, d) ==
  [k \in DOMAIN ls |-> [instrs |-> ls[k].instrs, fn |-> ls[k].fn,
                        blk |-> ls[k].blk, inDefer |-> d]]

Stop(r) == [stop |-> TRUE, report |-> r, calls |-> << >>]
Recurse(ls) == [stop |-> FALSE, report |-> FALSE, calls |-> ls]

\* the Call case, lines 330-337
deferredCallNoReturn(instr, inDefer) ==
  IF ~instr.valueNil /\ instr.valueName = closeMethod
    THEN [stop |-> FALSE, report |-> ~inDefer, calls |-> << >>]
    ELSE Recurse(<< >>)
deferredCall(instr, inDefer) ==
  IF ~instr.valueNil /\ instr.valueName = closeMethod
    THEN Stop(~inDefer)
    ELSE Recurse(<< >>)

\* the Defer case, lines 322-329
deferredDeferNoReturn(instr, inDefer) == Recurse(<< >>)
deferredDefer(instr, inDefer) ==
  IF (~instr.valueNil /\ instr.valueName = closeMethod) \/ instr.method = closeMethod
    THEN Stop(FALSE)
    ELSE Recurse(<< >>)

deferred(instr, tts, inDefer) ==
  CASE instr.kind = "Defer" -> deferredDefer(instr, inDefer)
    [] instr.kind = "Call" -> deferredCall(instr, inDefer)
    [] instr.kind = "Store" ->
         IF Len(instr.addrRefs) = 0 THEN Stop(FALSE)
         ELSE Recurse(WithDefer(ClosureBlocks(instr.addrRefs), TRUE))
    [] instr.kind = "UnOp" ->
         Recurse(WithDefer([k \in 1..Len(Matching(instr.type, tts)) |->
                              Referrers(instr)], inDefer))
    [] instr.kind = "FieldAddr" ->
         Recurse(WithDefer(<<Referrers(instr)>>, inDefer))
    [] OTHER -> Recurse(<< >>)

(***************************************************************************)
(* The call stack.                                                         *)
(***************************************************************************)
\* a source position: the function and block of an instruction of a function
\* body ("" and 0 for the scanned source function), and the path to the
\* instruction: its index, or the path of the instruction it refers to
\* followed by its index among that instruction's referrers
Pos(f, b, path) == [fn |-> f, blk |-> b, path |-> path]

NoRet == [k |-> "none", b |-> FALSE, a |-> ""]
RetBool(b) == [k |-> "bool", b |-> b, a |-> ""]
RetAction(a) == [k |-> "action", b |-> FALSE, a |-> a]

IsClosedFrame(l) ==
  [op |-> "isClosed", instrs |-> l.instrs, idx |-> 1, fn |-> l.fn, blk |-> l.blk]
GetActionFrame(instr, plan) ==
  [op |-> "getAction", instr |-> instr, scans |-> plan.scans, k |-> 1,
   hit |-> plan.hit, miss |-> plan.miss]
CheckDeferredFrame(instrs, inDefer, f, b, path) ==
  [op |-> "checkDeferred", instrs |-> instrs, idx |-> 1, inDefer |-> inDefer,
   fn |-> f, blk |-> b, path |-> path, pend |-> << >>]

Top == stack[Len(stack)]
Pop == SubSeq(stack, 1, Len(stack) - 1)
SetTop(fr) == [stack EXCEPT ![Len(stack)] = fr]

\* a Go call: a new frame, or the end of the process when the stack is full
Call(below, fr) ==
  IF Len(below) < MaxDepth
    THEN stack' = Append(below, fr) /\ pc' = pc
    ELSE stack' = below /\ pc' = "overflow"

(***************************************************************************)
(* Run, lines 66-108.                                                      *)
(***************************************************************************)
Start ==
  /\ targetTypes = << >>
  /\ pc = "start"
  /\ i = 0
  /\ vals = << >>
  /\ j = 0
  /\ stack = << >>
  /\ ret = NoRet
  /\ diags = << >>
  /\ scanned = 0
  /\ calls = 0
  /\ acts = << >>
  /\ closedRes = "none"
  /\ classified = {}
  /\ examined = << >>

Init ==
  /\ \E p \in Libs : \E rs \in RefLists(p) : prog = Program(p, rs)
  /\ Start

InitWalk ==
  /\ \E p \in Libs : \E rs \in WalkLists(p) : prog = Program(p, rs)
  /\ Start

\* lines 73-80
RunStart ==
  /\ pc = "start"
  /\ targetTypes' = getTargetTypes(prog.universe)
  /\ IF NoTargets(targetTypes') THEN pc' = "done" /\ i' = i
                                ELSE pc' = "scan" /\ i' = 1
  /\ UNCHANGED <<prog, vals, j, stack, ret, diags, scanned, calls, acts,
                 closedRes, classified, examined>>

\* lines 81-88: the next instruction of the source function
RunScan ==
  /\ pc = "scan"
  /\ IF i > Len(prog.instrs)
       THEN pc' = "done" /\ UNCHANGED <<i, vals, j, scanned>>
       ELSE /\ scanned' = scanned + 1
            /\ vals' = getClosableValues(prog.instrs, i, targetTypes)
            /\ IF Len(vals') = 0 THEN pc' = "scan" /\ i' = i + 1 /\ j' = j
                                 ELSE pc' = "value" /\ i' = i /\ j' = 1
  /\ UNCHANGED <<prog, targetTypes, stack, ret, diags, calls, acts, closedRes,
                 classified, examined>>

\* lines 91-96: the next target value, and the call of isClosed on its referrers
RunValue ==
  /\ pc = "value"
  /\ IF j > Len(vals)
       THEN pc' = "scan" /\ i' = i + 1 /\ UNCHANGED <<stack, calls>>
       ELSE /\ stack' = << IsClosedFrame([instrs |-> vals[j].refs, fn |-> "", blk |-> 0]) >>
            /\ pc' = "isClosed"
            /\ calls' = calls + 1
            /\ i' = i
  /\ UNCHANGED <<prog, targetTypes, vals, j, ret, diags, scanned, acts,
                 closedRes, classified, examined>>

\* lines 96-101: isClosed has returned; report, and call checkDeferred
RunReport ==
  /\ pc = "isClosed" /\ stack = << >> /\ ret.k = "bool"
  /\ closedRes' = IF ret.b THEN "true" ELSE "false"
  /\ diags' = IF ~ret.b
                THEN Append(diags, [pos |-> Pos("", 0, <<vals[j].instr>>),
                                    msg |-> NotClosedMsg])
                ELSE diags
  /\ stack' = << CheckDeferredFrame(vals[j].refs, FALSE, "", 0, <<vals[j].instr>>) >>
  /\ pc' = "checkDeferred"
  /\ calls' = calls + 1
  /\ ret' = NoRet
  /\ UNCHANGED <<prog, targetTypes, i, vals, j, scanned, acts, classified, examined>>

\* line 102: checkDeferred has returned
RunNext ==
  /\ pc = "checkDeferred" /\ stack = << >>
  /\ j' = j + 1
  /\ pc' = "value"
  /\ UNCHANGED <<prog, targetTypes, i, vals, stack, ret, diags, scanned, calls,
                 acts, closedRes, classified, examined>>

(***************************************************************************)
(* isClosed, lines 113-151, and getAction, lines 154-317.                  *)
(***************************************************************************)
\* line 150: return false when the referrers are exhausted
ExhaustedTrue == TRUE
Exhausted == FALSE

\* lines 115-118: the loop head; the next instruction goes to getAction
IsClosedLoop ==
  /\ pc = "isClosed" /\ stack # << >> /\ Top.op = "isClosed" /\ ret.k = "none"
  /\ IF Top.idx > Len(Top.instrs)
       THEN stack' = Pop /\ ret' = RetBool(Exhausted) /\ pc' = pc
       ELSE /\ Call(stack, GetActionFrame(Top.instrs[Top.idx],
                                          getAction(Top.instrs[Top.idx], targetTypes)))
            /\ ret' = ret
  /\ UNCHANGED <<prog, targetTypes, i, vals, j, diags, scanned, calls, acts,
                 closedRes, classified, examined>>

\* lines 121-147: getAction has returned
IsClosedSwitch ==
  /\ pc = "isClosed" /\ stack # << >> /\ Top.op = "isClosed" /\ ret.k = "action"
  /\ IF ret.a \in Closing
       THEN stack' = Pop /\ ret' = RetBool(TRUE)
       ELSE stack' = SetTop([Top EXCEPT !.idx = @ + 1]) /\ ret' = NoRet
  /\ acts' = IF Len(stack) = 1 THEN Append(acts, ret.a) ELSE acts
  /\ UNCHANGED <<prog, targetTypes, pc, i, vals, j, diags, scanned, calls,
                 closedRes, classified, examined>>

\* getAction's own steps: the next isClosed call of its plan, or its return
GetActionStep ==
  /\ pc = "isClosed" /\ stack # << >> /\ Top.op = "getAction" /\ ret.k = "none"
  /\ IF Top.k > Len(Top.scans)
       THEN /\ stack' = Pop /\ ret' = RetAction(Top.miss) /\ pc' = pc
            /\ classified' = classified \cup
                 {[instr |-> Top.instr, action |-> Top.miss,
                   direct |-> Top.scans = << >>]}
       ELSE /\ Call(stack, IsClosedFrame(Top.scans[Top.k]))
            /\ UNCHANGED <<ret, classified>>
  /\ UNCHANGED <<prog, targetTypes, i, vals, j, diags, scanned, calls, acts,
                 closedRes, examined>>

\* an isClosed call made by getAction has returned
GetActionResume ==
  /\ pc = "isClosed" /\ stack # << >> /\ Top.op = "getAction" /\ ret.k = "bool"
  /\ IF ret.b
       THEN /\ stack' = Pop /\ ret' = RetAction(Top.hit)
            /\ classified' = classified \cup
                 {[instr |-> Top.instr, action |-> Top.hit, direct |-> FALSE]}
       ELSE /\ stack' = SetTop([Top EXCEPT !.k = @ + 1]) /\ ret' = NoRet
            /\ classified' = classified
  /\ UNCHANGED <<prog, targetTypes, pc, i, vals, j, diags, scanned, calls, acts,
                 closedRes, examined>>

(***************************************************************************)
(* checkDeferred, lines 319-374.                                           *)
(***************************************************************************)
\* the frame of a recursive call made for the instruction at path
ChildFrame(c, parent, path) ==
  IF c.fn = "" THEN CheckDeferredFrame(c.instrs, c.inDefer, parent.fn, parent.blk, path)
               ELSE CheckDeferredFrame(c.instrs, c.inDefer, c.fn, c.blk, << >>)

CheckDeferredStep ==
  /\ pc = "checkDeferred" /\ stack # << >>
  /\ IF Top.pend # << >>
       THEN \* the next recursive call made for the current instruction
            /\ Call(SetTop([Top EXCEPT !.pend = Tail(@)]), Head(Top.pend))
            /\ UNCHANGED <<diags, examined>>
       ELSE IF Top.idx > Len(Top.instrs)
       THEN \* the loop is over
            stack' = Pop /\ pc' = pc /\ UNCHANGED <<diags, examined>>
       ELSE LET instr == Top.instrs[Top.idx]
                path == Append(Top.path, Top.idx)
                pos == Pos(Top.fn, Top.blk, path)
                d == deferred(instr, targetTypes, Top.inDefer)
            IN  /\ examined' = Append(examined, [pos |-> pos, instr |-> instr])
                /\ diags' = IF d.report
                              THEN Append(diags, [pos |-> pos, msg |-> UseDeferMsg])
                              ELSE diags
                /\ pc' = pc
                /\ IF d.stop
                     THEN stack' = Pop
                     ELSE stack' = SetTop([Top EXCEPT
                            !.idx = @ + 1,
                            !.pend = [k \in DOMAIN d.calls |->
                                        ChildFrame(d.calls[k], Top, path)]])
  /\ UNCHANGED <<prog, targetTypes, i, vals, j, ret, scanned, calls, acts,
                 closedRes, classified>>

Next ==
  \/ RunStart \/ RunScan \/ RunValue \/ RunReport \/ RunNext
  \/ IsClosedLoop \/ IsClosedSwitch \/ GetActionStep \/ GetActionResume
  \/ CheckDeferredStep

Spec == Init /\ [][Next]_vars

\* Run is one sequential call: it keeps running until it returns or dies
WalkSpec == InitWalk /\ [][Next]_vars /\ WF_vars(Next)

(***************************************************************************)
(* Vocabulary of the properties.                                           *)
(***************************************************************************)
\* Run has returned
Done == pc = "done"
\* the program's library is a supported one: its *Rows value is tracked
Tracked == \E k \in DOMAIN sqlPackages : sqlPackages[k] = prog.pkg
\* the referrers of the program's *Rows value, and the call producing it
Refs == prog.instrs[2].refs
AllocPos == Pos("", 0, <<2>>)
RefPos(k) == Pos("", 0, <<2, k>>)

NotClosedDiags == SelectSeq(diags, LAMBDA d : d.msg = NotClosedMsg)
UseDeferDiags == SelectSeq(diags, LAMBDA d : d.msg = UseDeferMsg)
NotClosedAt(pos) == [pos |-> pos, msg |-> NotClosedMsg]
UseDeferAt(pos) == [pos |-> pos, msg |-> UseDeferMsg]

\* the type a call's receiver has: the static callee's receiver, or the
\* type of the value the call is made on
RecvType(instr) == IF instr.callee # "" THEN instr.recv ELSE instr.vtype
\* the call of a Call or Defer is named Close
NamedClose(instr) == instr.valueName = closeMethod \/ instr.method = closeMethod
\* a deferred Close call
IsDeferClose(instr) == instr.kind = "Defer" /\ NamedClose(instr)
\* a bare Close call on a target-typed receiver
IsBareClose(instr) ==
  /\ instr.kind = "Call" /\ instr.valueName = closeMethod
  /\ \E p \in Libs : RecvType(instr) \in {Pointer(p, rowsName), Named(p, rowsName)}
\* a Phi or a MakeInterface
IsMergeOrBox(instr) == instr.kind \in {"Phi", "MakeInterface"}
\* a Return carrying a *Rows or Rows result
IsTargetReturn(instr) ==
  /\ instr.kind = "Return"
  /\ \E r \in DOMAIN instr.results : \E p \in Libs :
       instr.results[r] \in {Pointer(p, rowsName), Named(p, rowsName)}

HasDeferClose == \E k \in DOMAIN Refs : IsDeferClose(Refs[k])
FirstDeferClose ==
  CHOOSE k \in DOMAIN Refs : IsDeferClose(Refs[k]) /\ \A m \in 1..(k - 1) : ~IsDeferClose(Refs[m])
HasBareClose == \E k \in DOMAIN Refs : IsBareClose(Refs[k])
FirstBareClose ==
  CHOOSE k \in DOMAIN Refs : IsBareClose(Refs[k]) /\ \A m \in 1..(k - 1) : ~IsBareClose(Refs[m])
HasMergeOrBox == \E k \in DOMAIN Refs : IsMergeOrBox(Refs[k])
HasTargetReturn == \E k \in DOMAIN Refs : IsTargetReturn(Refs[k])

\* no referrer was classified Closed or Handled by getAction
NoneClosing == \A k \in DOMAIN acts : acts[k] \notin {actionClosed, actionHandled}

(***************************************************************************)
(* C1.  A deferred Close among the referrers.                              *)
(***************************************************************************)
\* C1 as claimed: when the referrers of a tracked value contain a deferred
\* Close call, Run emits no diagnostic at all for the value, whatever the
\* other referrers and their order.
C1_NoDiagnosticAtAll ==
  (Done /\ Tracked /\ HasDeferClose) => diags = << >>

\* C1 as amended: with a deferred Close among the referrers Run never emits
\* "was not closed", and never emits "Close should use defer" at or after the
\* first deferred Close; a bare Close that checkDeferred meets among the
\* referrers before it is still reported.  With the deferred Close as first
\* referrer there is no diagnostic at all.
C1_DeferredClose ==
  (Done /\ Tracked /\ HasDeferClose) =>
    /\ closedRes = "true"
    /\ NotClosedDiags = << >>
    /\ \A n \in DOMAIN diags :
         diags[n].pos.fn = "" /\ diags[n].pos.path[2] < FirstDeferClose
    /\ FirstDeferClose = 1 => diags = << >>

C1_Witness ==
  /\ Done /\ Tracked /\ HasDeferClose /\ FirstDeferClose = 1
  /\ Len(Refs) > 1 /\ IsBareClose(Refs[2]) /\ diags = << >>

BareCloseMetFirst ==
  \A m \in 1..(FirstBareClose - 1) :
    ~IsDeferClose(Refs[m]) /\ Refs[m].kind \notin {"UnOp", "FieldAddr"}

C3_NoReferrers ==
  (Done /\ Tracked /\ Refs = << >>) =>
    /\ closedRes = "false"
    /\ diags = << NotClosedAt(AllocPos) >>
    /\ examined = << >>
    /\ calls = 2

C3_Witness == Done /\ Tracked /\ Refs = << >> /\ Len(diags) = 1

(***************************************************************************)
(* C4.  Phi and MakeInterface referrers.                                   *)
(***************************************************************************)
\* C4 as claimed: a tracked value with a Phi or MakeInterface among its
\* referrers is always reported as not closed, however else it is handled.
C4_AlwaysNotClosed ==
  (Done /\ Tracked /\ HasMergeOrBox) =>
    closedRes = "false" /\ NotClosedDiags = << NotClosedAt(AllocPos) >>

\* C4 as amended: a Phi or MakeInterface referrer classifies as Passed, which
\* isClosed skips like Unhandled: the value is reported as not closed unless
\* another of its referrers classifies as Closed or Handled (and it is when
\* Phi and MakeInterface are its only referrers).
C4_PassedIsSkipped ==
  (Done /\ Tracked /\ HasMergeOrBox) =>
    /\ \A k \in DOMAIN acts : IsMergeOrBox(Refs[k]) => acts[k] = actionPassed
    /\ NoneClosing <=> closedRes = "false"
    /\ NoneClosing <=> NotClosedDiags = << NotClosedAt(AllocPos) >>
    /\ NoneClosing => Len(acts) = Len(Refs)
    /\ (\A k \in DOMAIN Refs : IsMergeOrBox(Refs[k])) => NoneClosing

C4_Witness ==
  /\ Done /\ Tracked /\ Len(Refs) > 1 /\ IsMergeOrBox(Refs[1]) /\ closedRes = "true"
  /\ NotClosedDiags = << >>

(***************************************************************************)
(* C5.  A returned value.                                                  *)
(***************************************************************************)
\* C5: a tracked value with a Return carrying a target-typed result among its
\* referrers and no referrer classified Closed or Handled is reported as not
\* closed: the Return classifies as Returned, isClosed goes on past it to the
\* end of the referrers and returns false, and Run emits "was not closed" at
\* the allocating call.
C5_ReturnedNotClosed ==
  (Done /\ Tracked /\ HasTargetReturn /\ NoneClosing) =>
    /\ Len(acts) = Len(Refs)
    /\ \A k \in DOMAIN Refs : IsTargetReturn(Refs[k]) => acts[k] = actionReturned
    /\ closedRes = "false"
    /\ NotClosedDiags = << NotClosedAt(AllocPos) >>

C5_Witness ==
  /\ Done /\ Tracked /\ Len(Refs) > 1 /\ IsTargetReturn(Refs[1]) /\ NoneClosing
  /\ diags = << NotClosedAt(AllocPos) >>

(***************************************************************************)
(* C6.  No target type.                                                    *)
(***************************************************************************)
\* C6: when the resolved target-type set is empty Run returns at once: no
\* instruction is scanned, isClosed and checkDeferred are never called, and
\* there is no diagnostic.
C6_NoTargetTypes ==
  (pc # "start" /\ Len(targetTypes) = 0) =>
    /\ Done
    /\ scanned = 0 /\ calls = 0 /\ stack = << >>
    /\ classified = {} /\ examined = << >>
    /\ diags = << >>

C6_Witness ==
  /\ Done /\ Len(targetTypes) = 0
  /\ Len(Refs) > 0 /\ \E p \in Libs : Refs[1] = CallNext(p)

(***************************************************************************)
(* The static structure of the program, for C7 and C8.                     *)
(***************************************************************************)
\* a Call to a statically resolved function that is not a method of a
\* target type
NonTargetStaticCall(instr) ==
  /\ instr.kind = "Call" /\ instr.callee # ""
  /\ \A p \in Libs : instr.recv \notin {Pointer(p, rowsName), Named(p, rowsName)}

\* the functions an instruction names: its static callee, its deferred
\* function, the function literals capturing the address it stores to, and
\* those its referrers name
RECURSIVE Mentions(_)
Mentions(instr) ==
  (({instr.callee, instr.valueFn} \cup {instr.addrRefs[k] : k \in DOMAIN instr.addrRefs})
     \ {""})
  \cup UNION { Mentions(instr.refs[k]) : k \in DOMAIN instr.refs }

BodyInstrs(f) ==
  UNION { { prog.funcs[f][b][n] : n \in DOMAIN prog.funcs[f][b] } : b \in DOMAIN prog.funcs[f] }
Callees(f) == UNION { Mentions(instr) : instr \in BodyInstrs(f) }

RECURSIVE ReachFrom(_, _)
ReachFrom(S, n) ==
  IF n = 0 THEN S ELSE ReachFrom(S \cup UNION { Callees(f) : f \in S }, n - 1)
Reach(S) == ReachFrom(S, Cardinality(FnNames))

\* f is part of a cycle of the static call/defer/closure nesting
OnCycle(f) == f \in Reach(Callees(f))
\* no function reachable from the referrers is part of a cycle
AcyclicInput ==
  \A f \in Reach(UNION { Mentions(Refs[k]) : k \in DOMAIN Refs }) : ~OnCycle(f)

\* the instructions of f in the order isClosed scans them, block by block
RECURSIVE Concat(_)
Concat(ls) == IF ls = << >> THEN << >> ELSE Head(ls) \o Concat(Tail(ls))
Flat(f) == Concat(prog.funcs[f])

\* the function f calls before anything that could classify as Closed or
\* Handled: the callee of its first instruction when that is a call to a
\* non-target static function, instructions of no interest to getAction
\* (kind Other) aside; "" when there is none
LeadingCallee(f) ==
  LET fl == Flat(f)
      firsts == { n \in DOMAIN fl : fl[n].kind # "Other" /\ \A m \in 1..(n - 1) : fl[m].kind = "Other" }
  IN  IF \E n \in firsts : NonTargetStaticCall(fl[n])
        THEN (CHOOSE c \in { fl[n].callee : n \in firsts } : TRUE)
        ELSE ""

RECURSIVE Lead(_, _)
Lead(f, n) ==
  IF n = 0 \/ LeadingCallee(f) = "" THEN {}
  ELSE {LeadingCallee(f)} \cup Lead(LeadingCallee(f), n - 1)

\* scanning f's body leads back, call after call, into a body being scanned
RecursesFirst(f) ==
  \E g \in {f} \cup Lead(f, Cardinality(FnNames)) : g \in Lead(g, Cardinality(FnNames))

\* isClosed, called by Run, has reached a referrer that is a call to such a
\* function: no earlier referrer classified as Closed or Handled
AtDivergingCall ==
  /\ pc = "isClosed" /\ stack # << >>
  /\ stack[1].op = "isClosed" /\ stack[1].idx \in DOMAIN stack[1].instrs
  /\ NonTargetStaticCall(stack[1].instrs[stack[1].idx])
  /\ RecursesFirst(stack[1].instrs[stack[1].idx].callee)

(***************************************************************************)
(* C7.  Termination of the walk.                                           *)
(***************************************************************************)
\* C7: the closure-reachability walk has no recursion guard.  Run returns
\* for every program whose static call/defer/closure nesting is acyclic,
\* and never exceeds the stack; but once isClosed reaches a referrer that is
\* a call to a non-target static function whose body calls itself, or a
\* mutually recursive function, before any instruction classified Closed or
\* Handled, the recursion goes on until the stack is exhausted: isClosed
\* never returns (Run never gets to "done", which is final).
C7_UnboundedRecursion ==
  /\ AcyclicInput => <>Done
  /\ [](AcyclicInput => pc # "overflow")
  /\ AtDivergingCall ~> (pc = "overflow")
  /\ [](AtDivergingCall => [](~Done))

C7_Witness ==
  /\ pc = "overflow" /\ Tracked /\ Len(stack) = MaxDepth
  /\ Len(Refs) = 2 /\ NonTargetStaticCall(Refs[2]) /\ Refs[2].callee = FnMutualA
  /\ acts = << actionPassed >>

(***************************************************************************)
(* C8.  Depth of the interprocedural follow.                               *)
(***************************************************************************)
\* nothing in f's body closes by itself: it holds calls and returns only,
\* none named Close
NoCloseInBody(f) ==
  \A instr \in BodyInstrs(f) :
    instr.kind \in {"Call", "Return", "Other"} /\ ~NamedClose(instr)

\* a call to a function whose body closes nothing itself but calls a
\* function whose body holds a bare Close on a target-typed receiver
TwoCallsAway(instr) ==
  /\ NonTargetStaticCall(instr)
  /\ NoCloseInBody(instr.callee)
  /\ \E c \in BodyInstrs(instr.callee) :
       /\ NonTargetStaticCall(c)
       /\ \E x \in BodyInstrs(c.callee) : IsBareClose(x)

\* C8 as claimed: the follow is one level per call site: a Close that is
\* only reachable two static calls away does not make the call classify as
\* Closed.
C8_OneLevelOnly ==
  (Done /\ Tracked) =>
    \A k \in DOMAIN acts : TwoCallsAway(Refs[k]) => acts[k] # actionClosed

\* C8 as amended: the follow is transitive: getAction scans the callee's
\* blocks with isClosed, which classifies every instruction of the body with
\* getAction again, calls included; a Close reachable two static calls away
\* makes the call classify as Closed (whenever the walk returns).
C8_TransitiveFollow ==
  (Done /\ Tracked) =>
    \A k \in DOMAIN acts :
      TwoCallsAway(Refs[k]) =>
        /\ acts[k] = actionClosed
        /\ closedRes = "true" /\ NotClosedDiags = << >>
        /\ [instr |-> Refs[k], action |-> actionClosed, direct |-> FALSE] \in classified

C8_Witness ==
  /\ Done /\ Tracked /\ Len(acts) = 2 /\ TwoCallsAway(Refs[2])
  /\ acts[2] = actionClosed /\ acts[1] = actionUnhandled

(***************************************************************************)
(* C9.  Closed on account of the name.                                     *)
(***************************************************************************)
\* C9: getAction classifies a Close-named Call, and equally a Defer of a
\* Close-named call, as Closed on account of the name only when the receiver
\* is target-typed.
C9_ClosedByNameOnlyOnTarget ==
  \A c \in classified :
    (c.instr.kind \in {"Call", "Defer"} /\ NamedClose(c.instr)
       /\ c.direct /\ c.action = actionClosed)
      => isTargetType(RecvType(c.instr), targetTypes)

(***************************************************************************)
(* C10.  checkDeferred's first match.                                      *)
(***************************************************************************)
\* two positions of the same instruction list
SameList(a, b) ==
  /\ a.fn = b.fn /\ a.blk = b.blk /\ Len(a.path) = Len(b.path)
  /\ SubSeq(a.path, 1, Len(a.path) - 1) = SubSeq(b.path, 1, Len(b.path) - 1)
Index(a) == a.path[Len(a.path)]
\* a bare call named Close
IsCloseCall(instr) == instr.kind = "Call" /\ instr.valueName = closeMethod

\* C10 as claimed: once the first bare Close has been reported no further
\* referrer of the value is examined at any recursion depth, so there is at
\* most one "Close should use defer" per tracked value.
C10_AtMostOnePerValue ==
  (Done /\ Tracked) =>
    /\ Len(UseDeferDiags) <= 1
    /\ UseDeferDiags # << >> => examined[Len(examined)].pos = UseDeferDiags[1].pos

\* C10 as amended: checkDeferred is first-match per referrer list, not per
\* value.  A bare Close call (reported unless inDefer) or a deferred Close
\* ends the walk of the list it is found in: no later instruction of that
\* list is examined and a list yields at most one diagnostic.  Found inside
\* a recursive call (dereference, field address, closure body) it ends that
\* inner walk only and the caller goes on with its next referrer, so a value
\* can get several diagnostics.  Found first among the value's own referrers
\* it ends the whole walk: with one diagnostic for a bare Close, with none
\* for a deferred Close.
C10_FirstMatchPerList ==
  (Done /\ Tracked) =>
    /\ \A a, b \in DOMAIN examined :
         (a < b /\ SameList(examined[a].pos, examined[b].pos)
            /\ Index(examined[a].pos) < Index(examined[b].pos))
           => ~(IsCloseCall(examined[a].instr) \/ IsDeferClose(examined[a].instr))
    /\ \A m, n \in DOMAIN UseDeferDiags :
         m # n => ~SameList(UseDeferDiags[m].pos, UseDeferDiags[n].pos)
    /\ \A n \in DOMAIN UseDeferDiags :
         \E a \in DOMAIN examined :
           examined[a].pos = UseDeferDiags[n].pos /\ IsCloseCall(examined[a].instr)
    /\ (Refs # << >> /\ IsDeferClose(Refs[1])) =>
         (UseDeferDiags = << >> /\ Len(examined) = 1)
    /\ (Refs # << >> /\ IsCloseCall(Refs[1])) =>
         (UseDeferDiags = << UseDeferAt(RefPos(1)) >> /\ Len(examined) = 1)

C10_Witness ==
  /\ Done /\ Tracked /\ Len(Refs) = 2 /\ Refs[1].kind = "FieldAddr"
  /\ IsCloseCall(Refs[2]) /\ Len(UseDeferDiags) = 2
====
